---------------------------- MODULE Spec2Model ----------------------------
(***************************************************************************)
(* The swap-route descriptor codec of summitx-example.                      *)
(*                                                                         *)
(*   encoders  TokenQuoter.formatQuoteResult  (two generations of it)       *)
(*   decoders  QuoteToTradeConverter.convertQuoteToTrade                    *)
(*             QuoteToTradeConverterV2.convertQuoteToTrade                  *)
(*   validators  validateConversion of either converter                     *)
(*                                                                         *)
(* Descriptors are TLA+ strings and are taken apart character by           *)
(* character, the way the regular expressions and split() calls of the     *)
(* source take them apart.  An exception of the source is an outcome       *)
(* record with status "threw".                                             *)
(***************************************************************************)
EXTENDS Integers, Sequences, FiniteSets, TLC

(***************************************************************************)
(* Bounds of the model.                                                     *)
(***************************************************************************)
\* routes of one trade
MaxRoutes == 3
\* hops of one route
MaxHops == 2

(***************************************************************************)
(* JavaScript string primitives.                                            *)
(***************************************************************************)
Min(S) == CHOOSE m \in S : \A n \in S : m <= n

\* s[a..b], 1-based and inclusive, cut to the string
Sub(s, a, b) ==
  LET lo == IF a < 1 THEN 1 ELSE a
      hi == IF b > Len(s) THEN Len(s) ELSE b
  IN  IF lo > hi THEN "" ELSE SubSeq(s, lo, hi)

CharAt(s, i) == Sub(s, i, i)

\* String.prototype.slice(from0, to0) with 0-based, non-negative arguments
Slice(s, from0, to0) ==
  LET hi == IF to0 > Len(s) THEN Len(s) ELSE to0
  IN  Sub(s, from0 + 1, hi)

\* 1-based index of the first occurrence of p in s at or after from, 0 if none
IndexOf(s, p, from) ==
  LET C == {i \in from..(Len(s) - Len(p) + 1) : Sub(s, i, i + Len(p) - 1) = p}
  IN  IF C = {} THEN 0 ELSE Min(C)

Includes(s, p) == IndexOf(s, p, 1) # 0

\* String.prototype.split(sep), sep non-empty
RECURSIVE Split(_, _)
Split(s, sep) ==
  LET i == IndexOf(s, sep, 1)
  IN  IF i = 0 THEN <<s>>
      ELSE <<Sub(s, 1, i - 1)>> \o Split(Sub(s, i + Len(sep), Len(s)), sep)

\* Array.prototype.join(sep)
RECURSIVE Join(_, _)
Join(parts, sep) ==
  IF Len(parts) = 0 THEN ""
  ELSE IF Len(parts) = 1 THEN parts[1]
  ELSE parts[1] \o sep \o Join(Tail(parts), sep)

\* String.prototype.replace(p, "") with a string pattern: the first occurrence
RemoveFirst(s, p) ==
  LET i == IndexOf(s, p, 1)
  IN  IF i = 0 THEN s
      ELSE Sub(s, 1, i - 1) \o Sub(s, i + Len(p), Len(s))

Digits == {"0", "1", "2", "3", "4", "5", "6", "7", "8", "9"}

HexDigits == Digits \cup {"a", "b", "c", "d", "e", "f", "A", "B", "C", "D", "E", "F"}

IsDigit(c) == c \in Digits

DigitVal(c) ==
  CASE c = "0" -> 0 [] c = "1" -> 1 [] c = "2" -> 2 [] c = "3" -> 3
    [] c = "4" -> 4 [] c = "5" -> 5 [] c = "6" -> 6 [] c = "7" -> 7
    [] c = "8" -> 8 [] c = "9" -> 9

\* last index of the maximal run of digits that starts at i (i - 1 if s[i] is no digit)
RECURSIVE DigitRunEnd(_, _)
DigitRunEnd(s, i) ==
  IF IsDigit(CharAt(s, i)) THEN DigitRunEnd(s, i + 1) ELSE i - 1

AllDigits(s) == \A i \in 1..Len(s) : IsDigit(CharAt(s, i))

\* the natural number a string of digits denotes ("" denotes 0)
RECURSIVE DigitsToNat(_)
DigitsToNat(s) ==
  IF Len(s) = 0 THEN 0
  ELSE 10 * DigitsToNat(Sub(s, 1, Len(s) - 1)) + DigitVal(CharAt(s, Len(s)))

RECURSIVE Pow10(_)
Pow10(k) == IF k <= 0 THEN 1 ELSE 10 * Pow10(k - 1)

RECURSIVE Zeros(_)
Zeros(k) == IF k <= 0 THEN "" ELSE "0" \o Zeros(k - 1)

\* a digit string without its trailing zeros
RECURSIVE StripTrailingZeros(_)
StripTrailingZeros(s) ==
  IF Len(s) > 0 /\ CharAt(s, Len(s)) = "0"
  THEN StripTrailingZeros(Sub(s, 1, Len(s) - 1))
  ELSE s

\* the digits of n, left-padded with zeros to width w
PadLeft(n, w) ==
  LET d == ToString(n) IN Zeros(w - Len(d)) \o d


(***************************************************************************)
(* Numbers.  A JavaScript Number that holds a fee is a record: nan, or the  *)
(* integer part `whole` together with `exact`, which says that the value    *)
(* is that integer and not a neighbouring binary64 value.                   *)
(***************************************************************************)
NumNaN == [nan |-> TRUE, whole |-> 0, exact |-> FALSE]

Num(n) == [nan |-> FALSE, whole |-> n, exact |-> TRUE]

NumInexact(n) == [nan |-> FALSE, whole |-> n, exact |-> FALSE]

\* JavaScript truthiness of a Number: NaN and 0 are falsy
NumTruthy(x) == ~x.nan /\ ~(x.whole = 0 /\ x.exact)

\* The multiples M of 100 in 100..20000 for which binary64 gives
\* (M / 10000) * 10000 # M, e.g. 0.07 * 10000 = 700.0000000000001.
\* Every fee of the model is a multiple of 100 in that range.
InexactBps ==
  {700, 1400, 1700, 2800, 3400, 5600, 5700, 6800, 6900, 8100, 11100, 11200,
   11300, 11400, 13600, 13700, 13800, 13900, 16100, 16200, 16300}

\* parseFloat(s): the longest prefix of s that is digits with an optional
\* fraction; NaN when s does not start with a digit.  (No descriptor of the
\* model holds a sign, an exponent or a leading ".".)
ParseFloat(s) ==
  LET e == DigitRunEnd(s, 1)
      f == IF CharAt(s, e + 1) = "." THEN DigitRunEnd(s, e + 2) ELSE e
  IN  IF e = 0 THEN [nan |-> TRUE, int |-> 0, frac |-> ""]
      ELSE [nan |-> FALSE,
            int |-> DigitsToNat(Sub(s, 1, e)),
            frac |-> IF f > e + 1 THEN Sub(s, e + 2, f) ELSE ""]

\* parseFloat(..) * 10000 as the binary64 product
TimesTenThousand(d) ==
  LET fr == StripTrailingZeros(d.frac)
      m  == d.int * 10000
            + (IF Len(fr) <= 4 THEN DigitsToNat(fr) * Pow10(4 - Len(fr))
               ELSE DigitsToNat(Sub(fr, 1, 4)))
  IN  IF d.nan THEN NumNaN
      ELSE IF Len(fr) > 4 \/ m \in InexactBps THEN NumInexact(m)
      ELSE Num(m)

\* Math.round of a Number (the inexact values of the model lie within one
\* ulp of `whole`)
MathRound(x) == IF x.nan THEN NumNaN ELSE Num(x.whole)

\* `${fee / 10000}`: Number.prototype.toString of the quotient, fee an
\* integer; a falsy fee was replaced by the string "Unknown" and gives NaN
FeePercentString(fee) ==
  IF fee = 0 THEN "NaN"
  ELSE LET fr == StripTrailingZeros(PadLeft(fee % 10000, 4))
       IN  ToString(fee \div 10000) \o (IF fr = "" THEN "" ELSE "." \o fr)

\* parseInt of a string of digits
ParseInt(s) == DigitsToNat(s)

(***************************************************************************)
(* viem's formatUnits and parseUnits (decimal string <-> integer quotient). *)
(***************************************************************************)
FormatUnits(value, decimals) ==
  LET display == PadLeft(value, decimals)
      cut     == Len(display) - decimals
      integer == Sub(display, 1, cut)
      frac    == StripTrailingZeros(Sub(display, cut + 1, Len(display)))
  IN  (IF integer = "" THEN "0" ELSE integer)
      \o (IF frac = "" THEN "" ELSE "." \o frac)

\* /^(-?)([0-9]*)\.?([0-9]*)$/ without the sign, which no amount of the model has
IsDecimalString(s) ==
  LET e == DigitRunEnd(s, 1)
  IN  \/ e = Len(s)
      \/ CharAt(s, e + 1) = "." /\ DigitRunEnd(s, e + 2) = Len(s)

\* parseUnits(value, decimals): [ok, value]; ok = FALSE is the exception
\* viem raises for a string that is no decimal number.  A fraction longer
\* than `decimals` is rounded half up on its first surplus digit.
ParseUnits(s, decimals) ==
  LET e       == DigitRunEnd(s, 1)
      integer == Sub(s, 1, e)
      frac    == StripTrailingZeros(IF e < Len(s) THEN Sub(s, e + 2, Len(s)) ELSE "0")
      kept    == IF Len(frac) > decimals THEN Sub(frac, 1, decimals)
                 ELSE frac \o Zeros(decimals - Len(frac))
      up      == IF Len(frac) > decimals /\ DigitVal(CharAt(frac, decimals + 1)) >= 5
                 THEN 1 ELSE 0
  IN  IF ~IsDecimalString(s) THEN [ok |-> FALSE, value |-> 0]
      ELSE [ok |-> TRUE,
            value |-> DigitsToNat(integer) * Pow10(decimals) + DigitsToNat(kept) + up]

\* BigInt(s) raises a SyntaxError unless s is an integer literal
BigIntParses(s) == Len(s) > 0 /\ AllDigits(s)

(***************************************************************************)
(* Currencies, pools and trades: the values of the SDK that the codec       *)
(* reads.  A currency without a contract address is the native asset.       *)
(***************************************************************************)
ChainMantleSepolia == "5003"

Token(sym, addr, dec) ==
  [chainId |-> ChainMantleSepolia, isNative |-> FALSE, address |-> addr,
   decimals |-> dec, symbol |-> sym]

\* The tokens of the configuration.  Their decimals (6 and 18 in the
\* configuration) are scaled to 2 and 3 so that every quotient stays inside
\* TLC's integers; parseUnits and formatUnits take the decimals as a
\* parameter and treat every value of it alike.
USDC == Token("USDC", "0x1111111111111111111111111111111111111111", 2)

WETH == Token("WETH", "0x2222222222222222222222222222222222222222", 3)

DAI == Token("DAI", "0x3333333333333333333333333333333333333333", 2)

WBTC == Token("WBTC", "0x4444444444444444444444444444444444444444", 3)

WMNT == Token("WMNT", "0x5555555555555555555555555555555555555555", 3)

MNT ==
  [chainId |-> ChainMantleSepolia, isNative |-> TRUE, address |-> "",
   decimals |-> 3, symbol |-> "MNT"]

\* Currency.wrapped
Wrapped(c) == IF c.isNative THEN WMNT ELSE c

\* Currency.equals: by chain id and by address, or by both being native
CurrencyEquals(a, b) ==
  /\ a.chainId = b.chainId
  /\ a.isNative = b.isNative
  /\ (~a.isNative => a.address = b.address)

AddrA == "0xAAAAAAAAAAAAAAAAAAAAAAAAAAAAAAAAAAAAAAAA"

AddrB == "0xBBBBBBBBBBBBBBBBBBBBBBBBBBBBBBBBBBBBBBBB"

AddrC == "0xCCCCCCCCCCCCCCCCCCCCCCCCCCCCCCCCCCCCCCCC"

ZeroAddress == "0x0000000000000000000000000000000000000000"

\* A pool of the router: fee 0 and address "" stand for an absent field.
\* token0/token1 are the pool's pair (reserve0/reserve1 currencies of a V2
\* pool).
MkPool(type, a, b, fee, addr) ==
  [type |-> type, token0 |-> a, token1 |-> b, fee |-> fee, address |-> addr]

\* The hop kinds a route of the model is made of: the pool's type, fee and
\* address.
HopKinds ==
  << [type |-> "V3", fee |-> 3000, address |-> AddrA],
     [type |-> "V2", fee |-> 0, address |-> AddrB],
     [type |-> "STABLE", fee |-> 0, address |-> AddrC],
     [type |-> "V3", fee |-> 100, address |-> AddrA],
     [type |-> "V3", fee |-> 500, address |-> AddrB],
     [type |-> "V3", fee |-> 10000, address |-> AddrC],
     [type |-> "V3", fee |-> 700, address |-> AddrA],
     [type |-> "V2", fee |-> 0, address |-> ""] >>

\* The intermediate currencies of a multi-hop route, in order
Intermediates == <<DAI, WBTC, WMNT>>

\* The route of `hops` hops from a to b whose first hop is of kind k, the
\* next of kind k + 1, and so on round HopKinds
RoutePath(a, b, hops) ==
  [i \in 1..(hops + 1) |->
     IF i = 1 THEN a ELSE IF i = hops + 1 THEN b ELSE Intermediates[i - 1]]

RoutePools(a, b, hops, k) ==
  [i \in 1..hops |->
     LET kind == HopKinds[((k + i - 2) % Len(HopKinds)) + 1]
         path == RoutePath(a, b, hops)
     IN  MkPool(kind.type, Wrapped(path[i]), Wrapped(path[i + 1]), kind.fee, kind.address)]

\* Percentage splits of a trade
AllSplits ==
  { <<100>>, <<60, 40>>, <<33, 33, 34>>, <<15, 15, 20, 50>>, <<20, 20, 20, 20, 20>> }

Splits == {sp \in AllSplits : Len(sp) <= MaxRoutes}

RECURSIVE SumSeq(_)
SumSeq(q) == IF Len(q) = 0 THEN 0 ELSE q[1] + SumSeq(Tail(q))

\* The amount strings a caller asks a quote for, and the output quotients
\* the router answers with
InputAmounts == {"1.5", "10"}

OutputQuotients == {1234}

\* Trade type and gas estimate of a trade; gas 0 is an absent estimate
TradeKinds == { <<"ExactInput", 0>>, <<"ExactInput", 21000>>, <<"ExactOutput", 21000>> }

CurrencyPairs == { <<USDC, WETH>>, <<MNT, USDC>> }

NoTrade == [kind |-> "none"]

\* Hops of route r under hop plan h: h >= 1 gives every route h hops, plan 0
\* mixes routes of 1, 2, .. MaxHops hops
HopsOf(h, r) == IF h >= 1 THEN h ELSE ((r - 1) % MaxHops) + 1

\* The trade the router returns for `amount` of pair[1]: route r takes
\* split[r] percent, over HopsOf(h, r) hops that start with hop kind
\* k + r - 1.
RouterTrade(pair, amount, outQ, split, h, k, tt, gas) ==
  [kind |-> "trade",
   tradeType |-> tt,
   inputAmount |-> [currency |-> pair[1],
                    quotient |-> ParseUnits(amount, pair[1].decimals).value],
   outputAmount |-> [currency |-> pair[2], quotient |-> outQ],
   routes |-> [r \in 1..Len(split) |->
                 [percent |-> split[r],
                  path |-> RoutePath(pair[1], pair[2], HopsOf(h, r)),
                  pools |-> RoutePools(pair[1], pair[2], HopsOf(h, r), k + r - 1)]],
   gasEstimate |-> gas]

(***************************************************************************)
(* The encoders: TokenQuoter.formatQuoteResult.                             *)
(***************************************************************************)
SymbolOr(c) == IF c.symbol = "" THEN "Unknown" ELSE c.symbol

\* the pool part of a hop as quoter A renders it: "Stable" for a stable
\* pool, the address cut to its first 8 characters
PoolInfoA(pool) ==
  LET tag == IF pool.type = "V2" THEN "V2"
             ELSE IF pool.type = "V3" THEN "V3 " \o FeePercentString(pool.fee) \o "%"
             ELSE IF pool.type = "STABLE" THEN "Stable"
             ELSE "Type" \o pool.type
  IN  IF pool.address # "" THEN tag \o " " \o Slice(pool.address, 0, 8) \o "..."
      ELSE tag

\* the pool part of a hop as quoter B renders it: only V2 (type 0) and V3
\* (type 1) are named, the address is whole
PoolInfoB(pool) ==
  LET tag == IF pool.type = "V2" THEN "V2"
             ELSE IF pool.type = "V3" THEN "V3 " \o FeePercentString(pool.fee) \o "%"
             ELSE "Unknown"
  IN  IF pool.address # "" THEN tag \o " " \o pool.address ELSE tag

PathSegments(route, enc) ==
  [i \in 1..(Len(route.path) - 1) |->
     SymbolOr(route.path[i]) \o "-" \o SymbolOr(route.path[i + 1]) \o " "
       \o (IF enc = "A" THEN PoolInfoA(route.pools[i]) ELSE PoolInfoB(route.pools[i]))]

\* a route string that leaves out the route's percentage
RoutePathStringNoPercent(route, enc) ==
  "([" \o Join(PathSegments(route, enc), ", ") \o "])"

\* routePath: one string per route, "(<percent>% [<hop>, <hop>])"
RoutePathString(route, enc) ==
  "(" \o ToString(route.percent) \o "% [" \o Join(PathSegments(route, enc), ", ") \o "])"

PoolString(pool) ==
  IF pool.type = "V3" THEN "V3 " \o pool.address
  ELSE IF pool.type = "V2" THEN "V2 " \o pool.token0.symbol \o "-" \o pool.token1.symbol
  ELSE "Stable " \o pool.address

RECURSIVE Flatten(_)
Flatten(ss) == IF Len(ss) = 0 THEN <<>> ELSE ss[1] \o Flatten(Tail(ss))

\* the QuoteResult formatQuoteResult returns; gasEstimate "" is undefined
FormatQuoteResult(t, inputAmountRaw, enc) ==
  [kind |-> "quote",
   inputToken |-> t.inputAmount.currency,
   outputToken |-> t.outputAmount.currency,
   inputAmount |-> inputAmountRaw,
   outputAmount |-> FormatUnits(t.outputAmount.quotient, t.outputAmount.currency.decimals),
   route |-> [r \in 1..Len(t.routes) |-> RoutePathString(t.routes[r], enc)],
   pools |-> Flatten([r \in 1..Len(t.routes) |->
                        [i \in 1..Len(t.routes[r].pools) |-> PoolString(t.routes[r].pools[i])]]),
   gasEstimate |-> IF t.gasEstimate = 0 THEN ""
                   ELSE IF enc = "A" THEN FormatUnits(t.gasEstimate, 18)
                   ELSE ToString(t.gasEstimate),
   rawTrade |-> t]

NoQuote == [kind |-> "none"]

(***************************************************************************)
(* parseRouteString of the two converters.                                  *)
(***************************************************************************)
Undefined == "<undefined>"

\* routeStr.match(/\((\d+)%/): the digits of the leftmost "(<digits>%", or
\* Undefined
PercentMatch(s) ==
  LET C == {i \in 1..Len(s) :
              /\ CharAt(s, i) = "("
              /\ DigitRunEnd(s, i + 1) >= i + 1
              /\ CharAt(s, DigitRunEnd(s, i + 1) + 1) = "%"}
  IN  IF C = {} THEN Undefined
      ELSE Sub(s, Min(C) + 1, DigitRunEnd(s, Min(C) + 1))

ParsePercent(s) ==
  IF PercentMatch(s) = Undefined THEN 100 ELSE ParseInt(PercentMatch(s))

\* routeStr.match(/\[(.*?)\]/): from the first "[" to the first "]" after it
HopsMatch(s) ==
  LET i == IndexOf(s, "[", 1)
      j == IF i = 0 THEN 0 ELSE IndexOf(s, "]", i + 1)
  IN  IF j = 0 THEN [found |-> FALSE, text |-> ""]
      ELSE [found |-> TRUE, text |-> Sub(s, i + 1, j - 1)]

\* parts[i] of a JavaScript array, 0-based; Undefined past its end
Part(parts, i0) == IF i0 + 1 <= Len(parts) THEN parts[i0 + 1] ELSE Undefined

Truthy(x) == x # Undefined /\ x # ""

\* One hop fragment, "USDC-WETH V3 0.3% 0x...".  defaultType is what stands
\* in for a missing pool type (V2: "V2"; V1: nothing).  address "" and
\* hasFee = FALSE are undefined fields.
ParseHop(hop, defaultType) ==
  LET parts    == Split(hop, " ")
      syms     == Split(parts[1], "-")
      poolType == IF Truthy(Part(parts, 1)) THEN Part(parts, 1)
                  ELSE IF defaultType # Undefined THEN defaultType
                  ELSE Part(parts, 1)
      hasFee   == poolType = "V3" /\ Truthy(Part(parts, 2))
      addrAt   == IF poolType = "V3" THEN 3 ELSE 2
  IN  [tokenIn  |-> syms[1],
       tokenOut |-> Part(syms, 1),
       poolType |-> poolType,
       hasFee   |-> hasFee,
       fee      |-> IF hasFee
                    THEN TimesTenThousand(ParseFloat(RemoveFirst(Part(parts, 2), "%")))
                    ELSE Num(0),
       address  |-> IF Truthy(Part(parts, addrAt)) THEN Part(parts, addrAt) ELSE ""]

ParseHops(text, defaultType) ==
  LET hopParts == Split(text, ", ")
  IN  [i \in 1..Len(hopParts) |-> ParseHop(hopParts[i], defaultType)]

\* QuoteToTradeConverter's parseRouteString: no brackets is an exception
ParseRouteStringV1(s) ==
  IF ~HopsMatch(s).found
  THEN [threw |-> TRUE, percent |-> ParsePercent(s), hops |-> <<>>]
  ELSE [threw |-> FALSE, percent |-> ParsePercent(s),
        hops |-> ParseHops(HopsMatch(s).text, Undefined)]

\* parseRouteString keeping the percent a bracket-less string states
ParseRouteStringV2KeepPercent(s) ==
  IF ~HopsMatch(s).found
  THEN [threw |-> FALSE, percent |-> ParsePercent(s), hops |-> <<>>]
  ELSE [threw |-> FALSE, percent |-> ParsePercent(s),
        hops |-> ParseHops(HopsMatch(s).text, "V2")]

\* QuoteToTradeConverterV2's parseRouteString: no brackets is 100 percent
\* and no hops
ParseRouteStringV2(s) ==
  IF ~HopsMatch(s).found
  THEN [threw |-> FALSE, percent |-> 100, hops |-> <<>>]
  ELSE [threw |-> FALSE, percent |-> ParsePercent(s),
        hops |-> ParseHops(HopsMatch(s).text, "V2")]

(***************************************************************************)
(* QuoteToTradeConverter.convertQuoteToTrade (the first converter).         *)
(***************************************************************************)
UpperAlphabet == "ABCDEFGHIJKLMNOPQRSTUVWXYZ"

LowerAlphabet == "abcdefghijklmnopqrstuvwxyz"

RECURSIVE ToLowerCase(_)
ToLowerCase(s) ==
  IF Len(s) = 0 THEN ""
  ELSE LET c == CharAt(s, 1)
           k == IndexOf(UpperAlphabet, c, 1)
       IN  (IF k = 0 THEN c ELSE CharAt(LowerAlphabet, k)) \o ToLowerCase(Tail(s))

\* the token made up for the output of a hop that is not the route's last:
\* ChainId.MANTLE_SEPOLIA_TESTNET is no member of the converter's own ChainId
\* enum, so the chain id is undefined
PlaceholderToken(hop) ==
  [chainId |-> Undefined, isNative |-> FALSE,
   address |-> "0x" \o ToLowerCase(hop.tokenOut),
   decimals |-> 18, symbol |-> hop.tokenOut]

DefaultFee == 3000

\* hop.poolType === "V3" ? V3 : hop.poolType === "V2" ? V2 : STABLE
PoolTypeV1(hop) ==
  IF hop.poolType = "V3" THEN "V3" ELSE IF hop.poolType = "V2" THEN "V2" ELSE "STABLE"

\* hop.fee || 3000
FeeV1(hop) == IF hop.hasFee /\ NumTruthy(hop.fee) THEN hop.fee ELSE Num(DefaultFee)

\* hop.address || "0x000...0"
AddressV1(hop) == IF hop.address # "" THEN hop.address ELSE ZeroAddress

\* a tokenPath that takes the output of every hop, the last one too, from
\* the hop's text
TokenPathAllFromText(quote, hops) ==
  [i \in 1..(Len(hops) + 1) |->
     IF i = 1 THEN quote.inputToken ELSE PlaceholderToken(hops[i - 1])]

\* tokenPath of a parsed route: the input token, a placeholder after every
\* hop but the last, the output token after the last
TokenPathV1(quote, hops) ==
  [i \in 1..(Len(hops) + 1) |->
     IF i = 1 THEN quote.inputToken
     ELSE IF i = Len(hops) + 1 THEN quote.outputToken
     ELSE PlaceholderToken(hops[i - 1])]

PoolsV1(quote, hops) ==
  [i \in 1..Len(hops) |->
     MkPool(PoolTypeV1(hops[i]), TokenPathV1(quote, hops)[i], TokenPathV1(quote, hops)[i + 1],
            FeeV1(hops[i]), AddressV1(hops[i]))]

\* building one route with convertCurrencyToToken accepting the native asset
RouteErrorV1NativeAccepted(quote, hops) ==
  LET badHops == {i \in 1..Len(hops) : i < Len(hops) /\ hops[i].tokenOut = Undefined}
  IN  IF badHops # {} THEN "TypeError"
      ELSE IF quote.gasEstimate # "" /\ ~BigIntParses(quote.gasEstimate) THEN "SyntaxError"
      ELSE ""

\* the first exception building one route raises, "" if none
RouteErrorV1(quote, hops) ==
  LET badHops == {i \in 1..Len(hops) :
                    IF i = Len(hops) THEN quote.outputToken.isNative
                    ELSE hops[i].tokenOut = Undefined}
  IN  IF quote.inputToken.isNative THEN "NativeCurrency"
      ELSE IF badHops # {}
      THEN (IF Min(badHops) = Len(hops) THEN "NativeCurrency" ELSE "TypeError")
      ELSE IF quote.gasEstimate # "" /\ ~BigIntParses(quote.gasEstimate) THEN "SyntaxError"
      ELSE ""

\* a share rounded up instead of down
RouteShareCeil(total, percent) == (total * percent + 99) \div 100

\* (total * percent) / 100 in BigInt arithmetic
RouteShare(total, percent) == (total * percent) \div 100

\* the first exception convertQuoteToTrade raises, "" if none
ConvertErrorV1(quote) ==
  LET parsed == [i \in 1..Len(quote.route) |-> ParseRouteStringV1(quote.route[i])]
      bad    == {i \in 1..Len(parsed) : RouteErrorV1(quote, parsed[i].hops) # ""}
  IN  IF \E i \in 1..Len(parsed) : parsed[i].threw THEN "InvalidRouteFormat"
      ELSE IF ~ParseUnits(quote.inputAmount, quote.inputToken.decimals).ok
           \/ ~ParseUnits(quote.outputAmount, quote.outputToken.decimals).ok
      THEN "InvalidDecimalNumber"
      ELSE IF bad # {} THEN RouteErrorV1(quote, parsed[Min(bad)].hops)
      ELSE IF quote.gasEstimate # "" /\ ~BigIntParses(quote.gasEstimate) THEN "SyntaxError"
      ELSE ""

Threw(err, warned) ==
  [status |-> "threw", error |-> err, fromText |-> FALSE, warnings |-> warned,
   trade |-> NoTrade]

Returned(t, fromText, warned) ==
  [status |-> "ok", error |-> "", fromText |-> fromText, warnings |-> warned,
   trade |-> t]

\* a converter that stamps the other trade type
TradeTypeExactOutput == "ExactOutput"

\* tradeType: TradeType.EXACT_INPUT, a literal of convertQuoteToTrade
TradeTypeV1 == "ExactInput"

ConvertV1(quote) ==
  LET parsed == [i \in 1..Len(quote.route) |-> ParseRouteStringV1(quote.route[i])]
      inQ    == ParseUnits(quote.inputAmount, quote.inputToken.decimals).value
      outQ   == ParseUnits(quote.outputAmount, quote.outputToken.decimals).value
  IN  IF ConvertErrorV1(quote) # "" THEN Threw(ConvertErrorV1(quote), 0)
      ELSE Returned(
             [kind |-> "trade",
              tradeType |-> TradeTypeV1,
              inputAmount |-> [currency |-> quote.inputToken, quotient |-> inQ],
              outputAmount |-> [currency |-> quote.outputToken, quotient |-> outQ],
              routes |-> [r \in 1..Len(parsed) |->
                            [percent |-> parsed[r].percent,
                             path |-> TokenPathV1(quote, parsed[r].hops),
                             pools |-> PoolsV1(quote, parsed[r].hops),
                             inputAmount |-> RouteShare(inQ, parsed[r].percent),
                             outputAmount |-> RouteShare(outQ, parsed[r].percent)]],
              gasEstimate |-> IF quote.gasEstimate = "" THEN 0
                              ELSE DigitsToNat(quote.gasEstimate)],
             TRUE, 0)

(***************************************************************************)
(* QuoteToTradeConverterV2.convertQuoteToTrade (the second converter).      *)
(***************************************************************************)
IsHexRun(s, i, n) == \A j \in i..(i + n - 1) : CharAt(s, j) \in HexDigits

\* poolInfoStr.match(/0x[a-fA-F0-9]{40}/)
AddressMatch(s) ==
  LET C == {i \in 1..Len(s) : Sub(s, i, i + 1) = "0x" /\ IsHexRun(s, i + 2, 40)}
  IN  IF C = {} THEN Undefined ELSE Sub(s, Min(C), Min(C) + 41)

\* the end of a match of /(\d+\.?\d*)%/ that starts at i, 0 if none: the
\* digits at i, an optional "." with the digits after it, then "%"
FeeMatchEnd(s, i) ==
  LET e == DigitRunEnd(s, i)
      f == DigitRunEnd(s, e + 2)
  IN  IF e < i THEN 0
      ELSE IF CharAt(s, e + 1) = "." /\ CharAt(s, f + 1) = "%" THEN f
      ELSE IF CharAt(s, e + 1) = "%" THEN e
      ELSE 0

\* poolInfoStr.match(/(\d+\.?\d*)%/): the number of the leftmost match
FeeMatch(s) ==
  LET C == {i \in 1..Len(s) : FeeMatchEnd(s, i) # 0}
  IN  IF C = {} THEN Undefined ELSE Sub(s, Min(C), FeeMatchEnd(s, Min(C)))

StableDefaultFee == 4

\* createPool: a placeholder pool of the given type between the wrapped
\* tokens.  A V2 pool has no fee (0); a stable pool's is Percent(4, 10000).
CreatePoolV2(tokenA, tokenB, poolType, poolInfoStr) ==
  LET address == IF AddressMatch(poolInfoStr) = Undefined THEN ZeroAddress
                 ELSE AddressMatch(poolInfoStr)
      fee     == IF FeeMatch(poolInfoStr) = Undefined THEN Num(DefaultFee)
                 ELSE MathRound(TimesTenThousand(ParseFloat(FeeMatch(poolInfoStr))))
  IN  MkPool(poolType, Wrapped(tokenA), Wrapped(tokenB),
             IF poolType = "V3" THEN fee
             ELSE IF poolType = "STABLE" THEN Num(StableDefaultFee)
             ELSE Num(0),
             address)

\* quote.pools[index] || quote.pools[0], index 0-based
PoolInfoStr(quote, index0) ==
  IF Truthy(Part(quote.pools, index0)) THEN Part(quote.pools, index0)
  ELSE Part(quote.pools, 0)

\* poolInfoStr.includes("V3") ? V3 : poolInfoStr.includes("Stable") ? STABLE : V2
PoolTypeV2(poolInfoStr) ==
  IF Includes(poolInfoStr, "V3") THEN "V3"
  ELSE IF Includes(poolInfoStr, "Stable") THEN "STABLE"
  ELSE "V2"

\* the exception buildPoolsAndPath raises for a route, "" if none: any hop
\* at all is refused as multi-hop; without hops the pool string is read
BuildErrorV2(routeInfo, poolInfoStr) ==
  IF Len(routeInfo.hops) # 0 THEN "MultiHop"
  ELSE IF poolInfoStr = Undefined THEN "TypeError"
  ELSE ""

BuildPoolsAndPath(routeInfo, inputToken, outputToken, poolInfoStr) ==
  [pools |-> << CreatePoolV2(inputToken, outputToken, PoolTypeV2(poolInfoStr), poolInfoStr) >>,
   path |-> <<inputToken, outputToken>>]

ParseRoutesV2(quote, inQ, outQ) ==
  [r \in 1..Len(quote.route) |->
     LET info  == ParseRouteStringV2(quote.route[r])
         built == BuildPoolsAndPath(info, quote.inputToken, quote.outputToken,
                                    PoolInfoStr(quote, r - 1))
     IN  [percent |-> info.percent,
          path |-> built.path,
          pools |-> built.pools,
          inputAmount |-> RouteShare(inQ, info.percent),
          outputAmount |-> RouteShare(outQ, info.percent)]]

\* the routes whose buildPoolsAndPath raises
FailingRoutesV2(quote) ==
  {r \in 1..Len(quote.route) :
     BuildErrorV2(ParseRouteStringV2(quote.route[r]), PoolInfoStr(quote, r - 1)) # ""}

\* tradeType: TradeType.EXACT_INPUT, a literal of convertQuoteToTrade
TradeTypeV2 == "ExactInput"

\* the conversion with the rawTrade shortcut taken out: the route strings are
\* always read
ConvertV2TextOnly(quote) ==
  LET inP  == ParseUnits(quote.inputAmount, quote.inputToken.decimals)
      outP == ParseUnits(quote.outputAmount, quote.outputToken.decimals)
      bad  == FailingRoutesV2(quote)
  IN  IF ~inP.ok \/ ~outP.ok THEN Threw("InvalidDecimalNumber", 0)
      ELSE IF bad # {}
      THEN Threw(BuildErrorV2(ParseRouteStringV2(quote.route[Min(bad)]),
                              PoolInfoStr(quote, Min(bad) - 1)),
                 Min(bad))
      ELSE Returned(
             [kind |-> "trade",
              tradeType |-> "ExactInput",
              inputAmount |-> [currency |-> quote.inputToken, quotient |-> inP.value],
              outputAmount |-> [currency |-> quote.outputToken, quotient |-> outP.value],
              routes |-> ParseRoutesV2(quote, inP.value, outP.value),
              gasEstimate |-> 0],
             TRUE, Len(quote.route))

ConvertV2(quote) ==
  LET inP  == ParseUnits(quote.inputAmount, quote.inputToken.decimals)
      outP == ParseUnits(quote.outputAmount, quote.outputToken.decimals)
      bad  == FailingRoutesV2(quote)
  IN  IF quote.rawTrade.kind = "trade" THEN Returned(quote.rawTrade, FALSE, 0)
      ELSE IF ~inP.ok \/ ~outP.ok THEN Threw("InvalidDecimalNumber", 0)
      ELSE IF bad # {}
      THEN Threw(BuildErrorV2(ParseRouteStringV2(quote.route[Min(bad)]),
                              PoolInfoStr(quote, Min(bad) - 1)),
                 Min(bad))
      ELSE IF quote.gasEstimate # "" /\ ~BigIntParses(quote.gasEstimate)
      THEN Threw("SyntaxError", Len(quote.route))
      ELSE Returned(
             [kind |-> "trade",
              tradeType |-> TradeTypeV2,
              inputAmount |-> [currency |-> quote.inputToken, quotient |-> inP.value],
              outputAmount |-> [currency |-> quote.outputToken, quotient |-> outP.value],
              routes |-> ParseRoutesV2(quote, inP.value, outP.value),
              gasEstimate |-> IF quote.gasEstimate = "" THEN 0
                              ELSE DigitsToNat(quote.gasEstimate)],
             TRUE, Len(quote.route))

(***************************************************************************)
(* validateConversion of the two converters: "true", "false" or "threw".    *)
(***************************************************************************)
AmountsParse(quote) ==
  /\ ParseUnits(quote.inputAmount, quote.inputToken.decimals).ok
  /\ ParseUnits(quote.outputAmount, quote.outputToken.decimals).ok

InputMatches(quote, t) ==
  t.inputAmount.quotient = ParseUnits(quote.inputAmount, quote.inputToken.decimals).value

OutputMatches(quote, t) ==
  t.outputAmount.quotient = ParseUnits(quote.outputAmount, quote.outputToken.decimals).value

TotalPercent(t) == SumSeq([r \in 1..Len(t.routes) |-> t.routes[r].percent])

Bool(b) == IF b THEN "true" ELSE "false"

ValidateConversionV1(quote, t) ==
  IF ~AmountsParse(quote) THEN "threw"
  ELSE Bool(/\ InputMatches(quote, t)
            /\ OutputMatches(quote, t)
            /\ Len(quote.route) = Len(t.routes)
            /\ TotalPercent(t) = 100)

ValidateConversionV2(quote, t) ==
  IF ~AmountsParse(quote) THEN "threw"
  ELSE Bool(/\ InputMatches(quote, t)
            /\ OutputMatches(quote, t)
            /\ Len(quote.route) = Len(t.routes)
            /\ CurrencyEquals(t.inputAmount.currency, quote.inputToken)
            /\ CurrencyEquals(t.outputAmount.currency, quote.outputToken))

(***************************************************************************)
(* The inputs of the model.                                                 *)
(***************************************************************************)
RouterTrades ==
  { RouterTrade(pair, amount, outQ, split, h, k, tk[1], tk[2]) :
      pair \in CurrencyPairs, amount \in InputAmounts, outQ \in OutputQuotients,
      split \in Splits, h \in 0..MaxHops, k \in 1..Len(HopKinds),
      tk \in TradeKinds }

LowA == "0xaaaaaaaaaaaaaaaaaaaaaaaaaaaaaaaaaaaaaaaa"

LowB == "0xbbbbbbbbbbbbbbbbbbbbbbbbbbbbbbbbbbbbbbbb"

\* quote.route of a quote that reaches a converter from elsewhere: route
\* strings nobody checked, among them the plain "A -> B" format
HandWrittenRoutes ==
  { << "(150% [A-B V2])" >>,
    << "(100% [A-B V3 0.3% " \o LowA \o ", B-C V2 " \o LowB \o "])" >>,
    << "(100% [A-B V2 " \o LowB \o "])" >>,
    << "USDC -> WETH" >>,
    << "USDC -> WETH", "USDC -> WETH" >>,
    << "(50% [A-B V2])", "(40% [A-B V3 0.05%])" >>,
    << "(100% [A-B XYZ])" >>,
    << "(100% [A-B V2 0.3%])" >>,
    << "(100% [A-B V3 abc%])" >>,
    << "(100% [A-B])" >>,
    << "(100% [A-B V2" >>,
    << "(60% [USDC-WETH V3 0.3% " \o AddrA \o "]), (40% [USDC-WETH V2 " \o AddrB \o "])" >>,
    << "(100% [A-B STABLE " \o LowA \o "])" >>,
    << "[A-B V2 " \o LowB \o "]" >>,
    << "(100% [A-B V3 0.07% " \o LowA \o "])" >>,
    << "(100% [A-B V3 0% " \o LowA \o "])" >>,
    << "(40%) USDC -> WETH", "(60%) USDC -> WETH" >>,
    << >> }

HandWrittenPools ==
  { << >>, << "V3 " \o AddrA >>, << "Stable " \o AddrC, "V2 USDC-WETH" >> }

HandWrittenQuotes ==
  { [kind |-> "quote",
     inputToken |-> pair[1],
     outputToken |-> pair[2],
     inputAmount |-> amount,
     outputAmount |-> "1.234",
     route |-> route,
     pools |-> pools,
     gasEstimate |-> "",
     rawTrade |-> NoTrade] :
      pair \in CurrencyPairs, amount \in {"1.5", "abc"},
      route \in HandWrittenRoutes, pools \in HandWrittenPools }

\* A trade somebody else reconstructed for `quote`: the quote's currencies
\* and amounts, one direct route per percent of `split`, then changed in one
\* respect
OtherCurrency(c) == IF c.isNative THEN WMNT ELSE IF c = DAI THEN WBTC ELSE DAI

ReconstructedTrade(quote, split, change) ==
  LET inC  == IF change = "inputCurrency" THEN OtherCurrency(quote.inputToken)
              ELSE quote.inputToken
      outC == IF change = "outputCurrency" THEN OtherCurrency(quote.outputToken)
              ELSE quote.outputToken
      inQ  == ParseUnits(quote.inputAmount, quote.inputToken.decimals).value
              + (IF change = "inputAmount" THEN 1 ELSE 0)
      outQ == ParseUnits(quote.outputAmount, quote.outputToken.decimals).value
  IN  [kind |-> "trade",
       tradeType |-> "ExactInput",
       inputAmount |-> [currency |-> inC, quotient |-> inQ],
       outputAmount |-> [currency |-> outC, quotient |-> outQ],
       routes |-> [r \in 1..Len(split) |->
                     [percent |-> split[r],
                      path |-> <<inC, outC>>,
                      pools |-> << MkPool("V2", Wrapped(inC), Wrapped(outC), Num(0), ZeroAddress) >>,
                      inputAmount |-> RouteShare(inQ, split[r]),
                      outputAmount |-> RouteShare(outQ, split[r])]],
       gasEstimate |-> 0]

\* splits that do not add up to 100
BrokenSplits == { <<150>>, <<50, 40>>, <<33, 33, 33>> }

Changes == {"none", "inputCurrency", "outputCurrency", "inputAmount"}

ReconstructedTrades(quote) ==
  { ReconstructedTrade(quote, split, change) :
      split \in {sp \in Splits \cup BrokenSplits \cup {<< >>} : Len(sp) = Len(quote.route) \/ Len(sp) = 0},
      change \in Changes }

(***************************************************************************)
(* The state machine: a router trade is formatted into a quote, the quote   *)
(* is converted back into a trade, the trade is validated against the       *)
(* quote.                                                                   *)
(***************************************************************************)
VARIABLES
  pc,          \* "traded", "quoted", "converted", "validated"
  trade,       \* the router's trade, NoTrade for a hand-written quote
  amountRaw,   \* the amount string the quote was asked for
  enc,         \* the quoter that formatted the quote: "A", "B", "none"
  quote,       \* the QuoteResult
  conv,        \* who made `result`: "V1", "V2", "other", "none"
  result,      \* the outcome of convertQuoteToTrade
  validator,   \* the validateConversion that ran: "V1", "V2", "none"
  valid        \* its outcome: "true", "false", "threw", "none"

vars == <<pc, trade, amountRaw, enc, quote, conv, result, validator, valid>>

NoResult ==
  [status |-> "none", error |-> "", fromText |-> FALSE, warnings |-> 0, trade |-> NoTrade]

Init ==
  /\ \/ /\ pc = "traded"
        /\ trade \in RouterTrades
        /\ amountRaw \in InputAmounts
        /\ trade.inputAmount.quotient
             = ParseUnits(amountRaw, trade.inputAmount.currency.decimals).value
        /\ quote = NoQuote
     \/ /\ pc = "quoted"
        /\ trade = NoTrade
        /\ quote \in HandWrittenQuotes
        /\ amountRaw = quote.inputAmount
  /\ enc = "none"
  /\ conv = "none"
  /\ result = NoResult
  /\ validator = "none"
  /\ valid = "none"

\* TokenQuoter.formatQuoteResult, quoter A
FormatQuoteResultA ==
  /\ pc = "traded"
  /\ quote' = FormatQuoteResult(trade, amountRaw, "A")
  /\ enc' = "A"
  /\ pc' = "quoted"
  /\ UNCHANGED <<trade, amountRaw, conv, result, validator, valid>>

\* TokenQuoter.formatQuoteResult, quoter B
FormatQuoteResultB ==
  /\ pc = "traded"
  /\ quote' = FormatQuoteResult(trade, amountRaw, "B")
  /\ enc' = "B"
  /\ pc' = "quoted"
  /\ UNCHANGED <<trade, amountRaw, conv, result, validator, valid>>

\* The quote reaches the converter without its optional rawTrade field
DropRawTrade ==
  /\ pc = "quoted"
  /\ quote.rawTrade.kind = "trade"
  /\ quote' = [quote EXCEPT !.rawTrade = NoTrade]
  /\ UNCHANGED <<pc, trade, amountRaw, enc, conv, result, validator, valid>>

ConvertQuoteToTradeV1 ==
  /\ pc = "quoted"
  /\ result' = ConvertV1(quote)
  /\ conv' = "V1"
  /\ pc' = "converted"
  /\ UNCHANGED <<trade, amountRaw, enc, quote, validator, valid>>

ConvertQuoteToTradeV2 ==
  /\ pc = "quoted"
  /\ result' = ConvertV2(quote)
  /\ conv' = "V2"
  /\ pc' = "converted"
  /\ UNCHANGED <<trade, amountRaw, enc, quote, validator, valid>>

\* A caller hands validateConversion a trade that was reconstructed elsewhere
\* (for the hand-written quotes only, which bounds the model)
SupplyTrade ==
  /\ pc = "quoted"
  /\ trade = NoTrade
  /\ \E t \in ReconstructedTrades(quote) : result' = Returned(t, FALSE, 0)
  /\ conv' = "other"
  /\ pc' = "converted"
  /\ UNCHANGED <<trade, amountRaw, enc, quote, validator, valid>>

ValidateV1 ==
  /\ pc = "converted"
  /\ result.status = "ok"
  /\ valid' = ValidateConversionV1(quote, result.trade)
  /\ validator' = "V1"
  /\ pc' = "validated"
  /\ UNCHANGED <<trade, amountRaw, enc, quote, conv, result>>

ValidateV2 ==
  /\ pc = "converted"
  /\ result.status = "ok"
  /\ valid' = ValidateConversionV2(quote, result.trade)
  /\ validator' = "V2"
  /\ pc' = "validated"
  /\ UNCHANGED <<trade, amountRaw, enc, quote, conv, result>>

Next ==
  \/ FormatQuoteResultA
  \/ FormatQuoteResultB
  \/ DropRawTrade
  \/ ConvertQuoteToTradeV1
  \/ ConvertQuoteToTradeV2
  \/ SupplyTrade
  \/ ValidateV1
  \/ ValidateV2

Spec == Init /\ [][Next]_vars

(***************************************************************************)
(* Vocabulary of the properties.                                            *)
(***************************************************************************)
Converted == pc \in {"converted", "validated"} /\ conv \in {"V1", "V2"}

\* the converter read the route strings (the second converter does so only
\* when the quote carries no rawTrade)
DecodedFromText ==
  Converted /\ (conv = "V1" \/ quote.rawTrade.kind = "none")

\* decode returned a trade it built from the route strings
DecodeReturned == DecodedFromText /\ result.status = "ok"

\* the hop fragments of a route entry, <<>> when it has no bracketed list
HopFragments(s) ==
  IF HopsMatch(s).found THEN Split(HopsMatch(s).text, ", ") ELSE << >>

RouteEntries == 1..Len(quote.route)

SomeEntryMultiHop == \E i \in RouteEntries : Len(HopFragments(quote.route[i])) > 1

EveryEntrySingleHop ==
  /\ Len(quote.route) >= 1
  /\ \A i \in RouteEntries : Len(HopFragments(quote.route[i])) = 1

\* nothing but the route strings stands in the way of a conversion: token
\* currencies, decimal amounts, an integer gas estimate
PlainQuote ==
  /\ ~quote.inputToken.isNative
  /\ ~quote.outputToken.isNative
  /\ AmountsParse(quote)
  /\ (quote.gasEstimate = "" \/ BigIntParses(quote.gasEstimate))

SumInputs(t) == SumSeq([r \in 1..Len(t.routes) |-> t.routes[r].inputAmount])

SumOutputs(t) == SumSeq([r \in 1..Len(t.routes) |-> t.routes[r].outputAmount])

\* the router's trade has single-hop routes only
SingleHopTrade(t) == \A r \in 1..Len(t.routes) : Len(t.routes[r].pools) = 1

\* the Validator of the specification: checks (a) to (e)
SpecValidate(original, reconstructed) ==
  /\ reconstructed.inputAmount.quotient = original.inputAmount.quotient
  /\ reconstructed.outputAmount.quotient = original.outputAmount.quotient
  /\ CurrencyEquals(reconstructed.inputAmount.currency, original.inputAmount.currency)
  /\ CurrencyEquals(reconstructed.outputAmount.currency, original.outputAmount.currency)
  /\ Len(reconstructed.routes) = Len(original.routes)
  /\ TotalPercent(reconstructed) = 100

CanonicalTiers == {100, 500, 3000, 10000}

(***************************************************************************)
(* The claims.                                                              *)
(***************************************************************************)

\* C1: decoding a descriptor in which some route entry has more than one hop
\* fails with the multi-hop error; no converter returns a trade for it (a
\* trade whose intermediate token would be made up).
C1_MultiHopFailsClosed ==
  (DecodedFromText /\ PlainQuote /\ SomeEntryMultiHop)
    => (result.status = "threw" /\ result.error = "MultiHop")

\* C2: in every decoded trade whose route percents sum to 100 the per-route
\* input amounts sum to the total input amount and the per-route output
\* amounts to the total output amount (the last route takes the remainder).
C2_RouteAmountsSumToTotals ==
  (DecodeReturned /\ TotalPercent(result.trade) = 100)
    => /\ SumInputs(result.trade) = result.trade.inputAmount.quotient
       /\ SumOutputs(result.trade) = result.trade.outputAmount.quotient

\* C3: decode never returns routes whose percents do not sum to 100 (a
\* descriptor such as "(150% [A-B V2])" is refused).
C3_PercentSumChecked ==
  (DecodeReturned /\ Len(quote.route) >= 1) => TotalPercent(result.trade) = 100

\* C4: for a router trade of single-hop routes, decoding what the encoder
\* wrote succeeds and gives a trade that passes the Validator against the
\* original trade.
C4_SingleHopRoundTrip ==
  (DecodedFromText /\ enc # "none" /\ SingleHopTrade(trade))
    => (result.status = "ok" /\ SpecValidate(trade, result.trade))

\* C5: a V3 pool with a fee tier of 100, 500, 3000 or 10000 bps, encoded and
\* decoded, is a pool with the same fee in bps.
C5_FeeTierFidelity ==
  (DecodedFromText /\ enc # "none" /\ PlainQuote)
    => \A r \in 1..Len(trade.routes) : \A i \in 1..Len(trade.routes[r].pools) :
         (trade.routes[r].pools[i].type = "V3"
            /\ trade.routes[r].pools[i].fee \in CanonicalTiers)
           => /\ result.status = "ok"
              /\ result.trade.routes[r].pools[i].fee = Num(trade.routes[r].pools[i].fee)

\* the two-route trade of the specification's example
ExampleTrade(t) ==
  /\ t.kind = "trade"
  /\ t.inputAmount.currency = USDC /\ t.outputAmount.currency = WETH
  /\ Len(t.routes) = 2
  /\ t.routes[1].percent = 60 /\ t.routes[2].percent = 40
  /\ t.routes[1].pools = << MkPool("V3", USDC, WETH, 3000, AddrA) >>
  /\ t.routes[2].pools = << MkPool("V2", USDC, WETH, 0, AddrB) >>

ExampleDescriptor ==
  "(60% [USDC-WETH V3 0.3% " \o AddrA \o "]), (40% [USDC-WETH V2 " \o AddrB \o "])"

\* C6: the encoder renders each route as "(<percent>% [<hops>])" and joins
\* the routes with ", " into one descriptor; for the example trade that
\* descriptor is exactly ExampleDescriptor, and decoding it gives two
\* single-hop routes with 60 and 40 percent of the input amount.
C6_EndToEndExample ==
  ExampleTrade(trade) =>
    /\ pc # "traded" => quote.route = << ExampleDescriptor >>
    /\ (DecodedFromText /\ PlainQuote) =>
         /\ result.status = "ok"
         /\ Len(result.trade.routes) = 2
         /\ \A r \in 1..2 : Len(result.trade.routes[r].pools) = 1
         /\ result.trade.routes[1].inputAmount = (trade.inputAmount.quotient * 60) \div 100
         /\ result.trade.routes[2].inputAmount = (trade.inputAmount.quotient * 40) \div 100

\* the pool kind a pool tag names
KindOfTag(tag) ==
  IF tag = "V3" THEN "V3" ELSE IF tag = "V2" THEN "V2" ELSE "STABLE"

KnownTag(tag) == tag \in {"V2", "V3", "STABLE"}

TagOf(fragment) == Part(Split(fragment, " "), 1)

\* C7: decoding route entries of exactly one hop each (percents summing to
\* 100, pool tags the known ones) succeeds; each route
\* has one pool and the path <<input currency, output currency>>, and the
\* pool's kind is the one its tag names.
C7_SingleHopDecodes ==
  (DecodedFromText /\ PlainQuote /\ EveryEntrySingleHop
     /\ SumSeq([i \in RouteEntries |-> ParsePercent(quote.route[i])]) = 100
     /\ \A i \in RouteEntries : KnownTag(TagOf(HopFragments(quote.route[i])[1])))
    => /\ result.status = "ok"
       /\ \A r \in RouteEntries :
            /\ Len(result.trade.routes[r].pools) = 1
            /\ result.trade.routes[r].path = <<quote.inputToken, quote.outputToken>>
            /\ result.trade.routes[r].pools[1].type
                 = KindOfTag(TagOf(HopFragments(quote.route[r])[1]))

\* C8: the Validator returns false for a trade whose route percents do not
\* sum to 100.
C8_ValidatorChecksPercent ==
  (pc = "validated" /\ AmountsParse(quote) /\ Len(result.trade.routes) >= 1
     /\ TotalPercent(result.trade) # 100)
    => valid = "false"

\* C9: the Validator returns false for a trade whose input or output
\* currency is not the original's.
C9_ValidatorChecksCurrency ==
  (pc = "validated" /\ AmountsParse(quote)
     /\ (\/ ~CurrencyEquals(result.trade.inputAmount.currency, quote.inputToken)
         \/ ~CurrencyEquals(result.trade.outputAmount.currency, quote.outputToken)))
    => valid = "false"

\* C10: the Validator returns a boolean and never throws, whatever the
\* amount strings of the quote and however many routes the trade has.
C10_ValidatorNeverThrows ==
  pc = "validated" => valid \in {"true", "false"}

(***************************************************************************)
(* Vocabulary of the hop fragments.                                         *)
(***************************************************************************)
\* p is a "<number>%" fragment: a decimal number that starts with a digit,
\* then "%"
IsFeeFragment(p) ==
  /\ Len(p) >= 2
  /\ CharAt(p, Len(p)) = "%"
  /\ IsDigit(CharAt(p, 1))
  /\ IsDecimalString(Sub(p, 1, Len(p) - 1))

\* the positions after the pair at which a hop fragment holds a fee fragment
FeePositions(f) ==
  {i \in 2..Len(Split(f, " ")) : IsFeeFragment(Split(f, " ")[i])}

HasFeeFragment(f) == FeePositions(f) # {}

\* the percentage of the fee fragment times 10,000, as an integer (the
\* percentages of the model have at most four decimals)
BpsOfFragment(f) ==
  LET p  == Split(f, " ")[Min(FeePositions(f))]
      d  == ParseFloat(Sub(p, 1, Len(p) - 1))
      fr == StripTrailingZeros(d.frac)
  IN  d.int * 10000 + DigitsToNat(fr) * Pow10(4 - Len(fr))

\* the hops decode returned a pool for: route r, hop i of the route strings
DecodedHops ==
  IF DecodeReturned
  THEN {<<r, i>> : r \in 1..Len(quote.route), i \in 1..MaxHops + 1} \cap
       {h \in (1..Len(quote.route)) \X (1..MaxHops + 1) :
          /\ h[2] <= Len(HopFragments(quote.route[h[1]]))
          /\ h[2] <= Len(result.trade.routes[h[1]].pools)}
  ELSE {}

FragmentOf(h) == HopFragments(quote.route[h[1]])[h[2]]

PoolOf(h) == result.trade.routes[h[1]].pools[h[2]]

\* some hop fragment of the route strings satisfies P (a 1-place predicate is
\* passed as the set of fragments that satisfy it)
AllFragments ==
  UNION {{HopFragments(quote.route[r])[i] : i \in 1..Len(HopFragments(quote.route[r]))} :
           r \in 1..Len(quote.route)}

\* C11: a hop fragment with a "V3" marker or a "<number>%" fee fragment is
\* classified Concentrated (V3), and its fee in basis points is the
\* percentage times 10,000, canonical tier or not: the value is stored as
\* it is, not replaced by a default.  (A fee fragment behind a V2 or STABLE
\* tag is the case of C14 and is left out here.)
C11_FeeFragmentIsV3 ==
  \A h \in DecodedHops :
    (\/ TagOf(FragmentOf(h)) = "V3"
     \/ HasFeeFragment(FragmentOf(h)) /\ TagOf(FragmentOf(h)) \notin {"V2", "STABLE"})
      => /\ PoolOf(h).type = "V3"
         /\ HasFeeFragment(FragmentOf(h))
              => PoolOf(h).fee = Num(BpsOfFragment(FragmentOf(h)))

\* C12: a hop fragment tagged "V2", or without a V3 or STABLE marker (a
\* missing tag included), is classified ConstantProduct (V2); one tagged
\* "STABLE" is classified Stable; nothing else is classified Stable.
C12_V2AndStableClassified ==
  \A h \in DecodedHops :
    /\ (TagOf(FragmentOf(h)) \notin {"V3", "STABLE"} /\ ~HasFeeFragment(FragmentOf(h)))
         => PoolOf(h).type = "V2"
    /\ TagOf(FragmentOf(h)) = "STABLE" => PoolOf(h).type = "STABLE"
    /\ PoolOf(h).type = "STABLE" => TagOf(FragmentOf(h)) = "STABLE"

\* a pool tag that is present and is none of the three
UnknownTag(f) == TagOf(f) # Undefined /\ ~KnownTag(TagOf(f)) /\ ~IsFeeFragment(TagOf(f))

\* C13: decoding a hop whose pool tag is present but is none of V2, V3,
\* STABLE is an error; no pool is made for such a hop.
C13_UnknownTagRefused ==
  (DecodedFromText /\ PlainQuote /\ \E f \in AllFragments : UnknownTag(f))
    => result.status # "ok"

\* C14: decoding a hop with a "<number>%" fee fragment behind a V2 or
\* STABLE tag is an error (InconsistentPoolData); the fragment is neither
\* taken for the pool's address nor dropped.
C14_FeeOnNonV3Refused ==
  (DecodedFromText /\ PlainQuote
     /\ \E f \in AllFragments : TagOf(f) \in {"V2", "STABLE"} /\ HasFeeFragment(f))
    => result.status # "ok"

\* a route string of the grammar "(" percent "% [" hopList "])", one or more
\* of them joined
WellFormedEntry(s) ==
  /\ CharAt(s, 1) = "("
  /\ DigitRunEnd(s, 2) >= 2
  /\ Sub(s, DigitRunEnd(s, 2) + 1, DigitRunEnd(s, 2) + 3) = "% ["
  /\ Len(s) >= 2 /\ Sub(s, Len(s) - 1, Len(s)) = "])"

\* C15: decoding a descriptor with a malformed structure (no leading
\* "(<percent>%", missing or unbalanced brackets) is an error returned to
\* the caller; no default percent or empty hop list stands in.
C15_MalformedRefused ==
  (DecodedFromText /\ PlainQuote /\ \E r \in RouteEntries : ~WellFormedEntry(quote.route[r]))
    => result.status # "ok"

\* a V3 hop whose third part is there but is no decimal percentage
UnparseableFee(f) ==
  /\ TagOf(f) = "V3"
  /\ Truthy(Part(Split(f, " "), 2))
  /\ CharAt(Part(Split(f, " "), 2), Len(Part(Split(f, " "), 2))) = "%"
  /\ ~IsFeeFragment(Part(Split(f, " "), 2))

\* C16: a V3 hop whose fee fragment is present but not parseable as a
\* decimal percentage is an error; no pool with a NaN fee or a default fee
\* tier is made.
C16_UnparseableFeeRefused ==
  (DecodedFromText /\ PlainQuote /\ \E f \in AllFragments : UnparseableFee(f))
    => result.status # "ok"

\* the hops a quoter rendered: route r, hop i of the router's trade
EncodedHops ==
  IF pc # "traded" /\ enc # "none"
  THEN {h \in (1..Len(trade.routes)) \X (1..MaxHops + 1) :
          h[2] <= Len(trade.routes[h[1]].pools)}
  ELSE {}

\* C17: every hop the encoder renders is "<in>-<out> <tag>" with the tag one
\* of V2, V3, STABLE, that of the pool's kind, and with a "<fee>%" fragment
\* exactly for a V3 pool.
C17_EncoderHopForm ==
  \A h \in EncodedHops :
    LET f    == HopFragments(quote.route[h[1]])[h[2]]
        pool == trade.routes[h[1]].pools[h[2]]
    IN  /\ Part(Split(f, " "), 0)
             = trade.routes[h[1]].path[h[2]].symbol \o "-" \o trade.routes[h[1]].path[h[2] + 1].symbol
        /\ TagOf(f) = pool.type
        /\ HasFeeFragment(f) <=> pool.type = "V3"

\* C18: a pool's known address is rendered as "0x" and its 40 hex digits,
\* and decoding the hop gives the pool that address.
C18_AddressRoundTrip ==
  \A h \in EncodedHops :
    LET f     == HopFragments(quote.route[h[1]])[h[2]]
        pool  == trade.routes[h[1]].pools[h[2]]
        parts == Split(f, " ")
    IN  pool.address # "" =>
          /\ parts[Len(parts)] = pool.address
          /\ (DecodeReturned /\ h \in DecodedHops) => PoolOf(h).address = pool.address

\* C19: decoding a descriptor string of n route entries separated by "),"
\* gives n routes, one for each entry.
C19_EveryEntryDecoded ==
  DecodeReturned =>
    Len(result.trade.routes)
      = SumSeq([r \in RouteEntries |-> Len(Split(quote.route[r], "),"))])

\* C20: decode returns every failure as an error value and raises no
\* exception, whatever the route strings (here even with token currencies,
\* decimal amounts and an integer gas estimate).
C20_DecodeNeverRaises ==
  (DecodedFromText /\ PlainQuote) => result.status # "threw"

(***************************************************************************)
(* Routes that decode returns.                                              *)
(***************************************************************************)
ReturnedRoutes == IF DecodeReturned THEN 1..Len(result.trade.routes) ELSE {}

\* the route's path and pools are chained from the trade's input currency to
\* its output currency; Same(c, t) says that currency c of the path is token
\* t of a pool
Chained(route, Same(_, _)) ==
  /\ Len(route.path) = Len(route.pools) + 1
  /\ route.path[1] = result.trade.inputAmount.currency
  /\ route.path[Len(route.path)] = result.trade.outputAmount.currency
  /\ \A i \in 1..Len(route.pools) :
       /\ Same(route.path[i], route.pools[i].token0)
       /\ Same(route.path[i + 1], route.pools[i].token1)
  /\ \A i \in 1..(Len(route.pools) - 1) :
       route.pools[i].token1 = route.pools[i + 1].token0

SameCurrency(c, t) == c = t

SameWrapped(c, t) == Wrapped(c) = t

C21_NativeWitness ==
  /\ DecodeReturned
  /\ result.trade.inputAmount.currency.isNative
  /\ ReturnedRoutes # {}

\* the pool carries a mark that says it was reconstructed
Flagged(pool) ==
  "provenance" \in DOMAIN pool /\ pool.provenance = "Reconstructed"

\* the text of the quote (route string r, or a pools entry) holds the address
AddressInText(r, address) ==
  \/ Includes(quote.route[r], address)
  \/ \E k \in 1..Len(quote.pools) : Includes(quote.pools[k], address)

\* C22: a pool that decode returns with an address the descriptor does not
\* hold is flagged as reconstructed; decode returns no unflagged pool with a
\* made-up address.
C22_PlaceholderFlagged ==
  \A r \in ReturnedRoutes : \A i \in 1..Len(result.trade.routes[r].pools) :
    ~AddressInText(r, result.trade.routes[r].pools[i].address)
      => Flagged(result.trade.routes[r].pools[i])

C24_DecodeWritesNothing == Converted => result.warnings = 0

\* C25: the second converter converts every quote a quoter formatted,
\* multi-hop, split and mixed-protocol routes included, whether or not the
\* quote still carries the trade object.
C25_ConvertsQuoterOutput ==
  (Converted /\ conv = "V2" /\ enc \in {"A", "B"} /\ PlainQuote /\ Len(quote.route) >= 1)
    => result.status = "ok"

\* C26: when the quote carries the trade object, the second converter
\* returns that very object and reads no route string (no fallback warning,
\* no decoding error, whatever the strings say); a trade built from the
\* text is returned only for a quote without rawTrade.
C26_RawTradeReturnedUnread ==
  (Converted /\ conv = "V2") =>
    /\ quote.rawTrade.kind = "trade" =>
         result = Returned(quote.rawTrade, FALSE, 0)
    /\ (result.fromText \/ result.warnings > 0 \/ result.status = "threw")
         => quote.rawTrade.kind = "none"

\* the second converter was given a quote that carries a trade with a route
\* of several pools, which the fallback would refuse
C26_Witness ==
  /\ Converted /\ conv = "V2"
  /\ quote.rawTrade.kind = "trade"
  /\ \E r \in 1..Len(quote.rawTrade.routes) : Len(quote.rawTrade.routes[r].pools) >= 2
  /\ SomeEntryMultiHop
  /\ result.status = "ok"

\* the entry of quote.pools the second converter reads for route r: the one
\* at the route's index, the first one when that is missing or empty
PoolsEntryFor(r) ==
  IF r <= Len(quote.pools) /\ quote.pools[r] # "" THEN quote.pools[r]
  ELSE quote.pools[1]

\* the routes of the second converter's fallback whose string has no
\* bracketed hop list
BracketlessRoutes ==
  IF DecodeReturned /\ conv = "V2"
  THEN {r \in 1..Len(quote.route) :
          ~(\E i, j \in 1..Len(quote.route[r]) :
              i < j /\ CharAt(quote.route[r], i) = "[" /\ CharAt(quote.route[r], j) = "]")}
  ELSE {}

C28_DecodedIsExactInput ==
  DecodeReturned => result.trade.tradeType = "ExactInput"

\* a converter returned a trade from the text a quoter wrote for an
\* ExactOutput trade
C28_Witness ==
  /\ DecodeReturned
  /\ enc \in {"A", "B"}
  /\ trade.tradeType = "ExactOutput"
  /\ Len(result.trade.routes) >= 1

\* amount is floor(total * percent / 100), said without the division
IsFloorShare(amount, total, percent) ==
  /\ 100 * amount <= total * percent
  /\ total * percent < 100 * (amount + 1)

\* C29: in both converters each route's reconstructed input and output
\* amount is exactly floor(total * percent / 100), the last route's too;
\* hence no route amount is negative, and when the route percents sum to 100
\* the route amounts sum to at most the total and fall short of it by fewer
\* units than there are routes.
C29_RouteAmountIsFloorShare ==
  DecodeReturned =>
    LET t    == result.trade
        inT  == t.inputAmount.quotient
        outT == t.outputAmount.quotient
    IN  /\ \A r \in 1..Len(t.routes) :
             /\ IsFloorShare(t.routes[r].inputAmount, inT, t.routes[r].percent)
             /\ IsFloorShare(t.routes[r].outputAmount, outT, t.routes[r].percent)
             /\ t.routes[r].inputAmount >= 0
             /\ t.routes[r].outputAmount >= 0
        /\ TotalPercent(t) = 100 =>
             /\ SumInputs(t) <= inT
             /\ inT - SumInputs(t) < Len(t.routes)
             /\ SumOutputs(t) <= outT
             /\ outT - SumOutputs(t) < Len(t.routes)

\* a converter returned three routes whose percents sum to 100 and whose
\* output amounts fall short of the total
C29_Witness ==
  /\ DecodeReturned
  /\ Len(result.trade.routes) = 3
  /\ TotalPercent(result.trade) = 100
  /\ SumOutputs(result.trade) < result.trade.outputAmount.quotient

\* the quote's input or output currency is the native asset
NativeQuote == quote.inputToken.isNative \/ quote.outputToken.isNative

=============================================================================
